---- MODULE Spec2Model ----
(***************************************************************************)
(* Model of the container monitor bot (src/main.py): the authorization     *)
(* guard, the command handlers, the Docker event thread, the event worker  *)
(* and the log formatter.                                                  *)
(*                                                                         *)
(* Text is modelled structurally.  A configuration string is a sequence of *)
(* one-character strings, so that str.split(',') is computed.  A log text  *)
(* is the non-empty sequence of its newline-separated lines (the empty     *)
(* text is one empty line, as ''.split('\n') == ['']); a line is a record  *)
(* [id, len] where len is its number of characters, so that the chunk      *)
(* arithmetic of format_logs runs on the real limits.                      *)
(***************************************************************************)
EXTENDS Integers, Sequences, FiniteSets, TLC

VARIABLES
    AUTHORIZED_USERS,          \* list of strings, src/main.py:20
    CHANNEL_ID,                \* int, src/main.py:19
    MONITORED_CONTAINERS,      \* list of names, src/main.py:22-27
    CONTAINER_EVENTS_ENABLED,  \* bool, src/main.py:21, flipped at :196
    ready,                     \* on_ready invocations: [count, pc, ok]
    worker,                    \* worker id -> [pc, ev, chunks] (container_event_worker tasks)
    thread,                    \* worker id -> [st, cursor] (docker_event_thread threads)
    stream,                    \* events emitted by the Docker daemon so far
    event_queue,               \* queue.Queue(), src/main.py:80
    sent,                      \* messages delivered to the output channel, in order
    hist,                      \* observations: faults logged, arrivals while disabled,
                               \* notifications sent since the toggle went off (when counted)
    cmd,                       \* the command handler in flight or last completed
    fl                         \* one application of format_logs: [logs, lines, chunks]

vars == <<AUTHORIZED_USERS, CHANNEL_ID, MONITORED_CONTAINERS, CONTAINER_EVENTS_ENABLED,
          ready, worker, thread, stream, event_queue, sent, hist, cmd, fl>>

cfgVars == <<AUTHORIZED_USERS, CHANNEL_ID, MONITORED_CONTAINERS>>
bridgeVars == <<ready, worker, thread, stream, event_queue, sent, hist>>

-----------------------------------------------------------------------------
(* Bounds of the model *)

MaxEvents == 2       \* events the Docker daemon emits in one behaviour
MaxFaults == 1       \* transient faults (chat send, runtime call) in one behaviour
MaxLogLines == 3     \* lines of a log text given to format_logs
MaxReady == 2        \* ready notifications of the gateway in one behaviour
MaxReconnectEvents == 1  \* events the daemon emits in a behaviour with reconnects

(* Program constants *)

ChunkLimit == 1990       \* src/main.py:65
ChunkMargin == 10        \* src/main.py:65
DiscordLimit == 2000     \* src/main.py:50
EventLogTail == 10       \* src/main.py:120-121
NoLogsLen == 18          \* len("No logs available."), src/main.py:52
FenceOpenLen == 4        \* len("```\n"), src/main.py:61
FenceCloseLen == 3       \* len("```"), src/main.py:66

-----------------------------------------------------------------------------
(* Sequences *)

Last(s) == s[Len(s)]
Front(s) == SubSeq(s, 1, Len(s) - 1)
Range(s) == {s[i] : i \in 1..Len(s)}

-----------------------------------------------------------------------------
(* Configuration: src/main.py:17-27 *)

RECURSIVE SplitFrom(_, _, _)
\* SplitFrom(s, i, cur): the fields of s[i..] split at ",", cur being the
\* field read so far
SplitFrom(s, i, cur) ==
    IF i > Len(s) THEN <<cur>>
    ELSE IF s[i] = "," THEN <<cur>> \o SplitFrom(s, i + 1, <<>>)
    ELSE SplitFrom(s, i + 1, Append(cur, s[i]))

\* str.split(','): always at least one field, ''.split(',') == ['']
Split(s) == SplitFrom(s, 1, <<>>)

\* str(user_id) for the one-digit ids of the model
Str(n) == <<CASE n = 1 -> "1" [] n = 2 -> "2" [] n = 3 -> "3" [] OTHER -> "0">>

\* values of the AUTHORIZED_USERS environment variable: unset/empty, one id, two ids
AuthEnvs == { <<>>, <<"1">>, <<"1", ",", "2">> }
UserIds == {1, 2, 3}
ChannelIds == {0, 7}          \* values of DISCORD_CHANNEL_ID
OriginChannels == {7, 8}      \* channels a command can come from
MonitoredEnvs == { <<>>, <<"web", "db">> }
Names == {"web", "db", "cache"}
NoName == "None"

\* an authorization that lets every caller through
is_authorized_anyone(user_id) == TRUE

\* str(user_id) in AUTHORIZED_USERS or not AUTHORIZED_USERS
is_authorized(user_id) ==
    \/ \E i \in 1..Len(AUTHORIZED_USERS) : AUTHORIZED_USERS[i] = Str(user_id)
    \/ AUTHORIZED_USERS = <<>>

\* a guard that forgets the channel restriction
check_authorizations_any_channel(author, channel, container_name) ==
    IF ~is_authorized(author) THEN "not_authorized"
    ELSE IF /\ container_name # NoName
            /\ MONITORED_CONTAINERS # <<>>
            /\ container_name \notin Range(MONITORED_CONTAINERS)
         THEN "not_monitored"
    ELSE "ok"

\* check_authorizations: "ok", or the reason of the exception it raises
check_authorizations(author, channel, container_name) ==
    IF ~is_authorized(author) THEN "not_authorized"
    ELSE IF channel # CHANNEL_ID /\ CHANNEL_ID # 0 THEN "wrong_channel"
    ELSE IF /\ container_name # NoName
            /\ MONITORED_CONTAINERS # <<>>
            /\ container_name \notin Range(MONITORED_CONTAINERS)
         THEN "not_monitored"
    ELSE "ok"

-----------------------------------------------------------------------------
(* format_logs: src/main.py:49-76 *)

Line(i, n) == [id |-> i, len |-> n]
EmptyText == <<Line(1, 0)>>

RECURSIVE StripLeft(_)
StripLeft(ls) ==
    IF ls = <<>> THEN <<>>
    ELSE IF ls[1].len = 0 THEN StripLeft(Tail(ls)) ELSE ls

RECURSIVE StripRight(_)
StripRight(ls) ==
    IF ls = <<>> THEN <<>>
    ELSE IF Last(ls).len = 0 THEN StripRight(Front(ls)) ELSE ls

\* logs.strip().split('\n'): leading and trailing empty lines go; a text of
\* empty lines only strips to '' and splits to one empty line
StripSplit(logs) ==
    LET s == StripRight(StripLeft(logs))
    IN  IF s = <<>> THEN <<Line(0, 0)>> ELSE s

\* log_lines[-lines:] as Python slices it: for lines = 0 the whole list,
\* for lines < 0 the list without its first -lines elements
TailSlice(ls, lines) ==
    LET n == Len(ls)
        from == IF lines > 0 THEN (IF lines >= n THEN 1 ELSE n - lines + 1)
                ELSE IF lines = 0 THEN 1
                ELSE (IF -lines >= n THEN n + 1 ELSE 1 - lines)
    IN  SubSeq(ls, from, n)

RECURSIVE BodyLen(_)
\* characters of the lines of a chunk, each followed by "\n"
BodyLen(ls) == IF ls = <<>> THEN 0 ELSE ls[1].len + 1 + BodyLen(Tail(ls))

\* a chunk: the lines it holds, fenced or the fixed "No logs available." text
Chunk(ls) == [fenced |-> TRUE, lines |-> ls]
NoLogsChunk == [fenced |-> FALSE, lines |-> <<>>]
ChunkLen(c) ==
    IF c.fenced THEN FenceOpenLen + BodyLen(c.lines) + FenceCloseLen ELSE NoLogsLen

\* len(current_chunk) + len(line) + 10 > 1990
Overflows(cur, line) ==
    FenceOpenLen + BodyLen(cur) + line.len + ChunkMargin > ChunkLimit

RECURSIVE ChunkLoop(_, _, _)
\* the for loop of format_logs: chunks closed so far, lines of current_chunk
ChunkLoop(ls, chunks, cur) ==
    IF ls = <<>>
    THEN IF cur # <<>> THEN Append(chunks, Chunk(cur)) ELSE chunks
    ELSE IF Overflows(cur, ls[1])
         THEN ChunkLoop(Tail(ls), Append(chunks, Chunk(cur)), <<ls[1]>>)
         ELSE ChunkLoop(Tail(ls), chunks, Append(cur, ls[1]))

format_logs(logs, lines) ==
    IF logs = EmptyText THEN <<NoLogsChunk>>
    ELSE LET all == StripSplit(logs)
             log_lines == IF Len(all) > lines THEN TailSlice(all, lines) ELSE all
         IN  ChunkLoop(log_lines, <<>>, <<>>)

-----------------------------------------------------------------------------
(* format_logs applied to bounded inputs *)

LineLens == {0, 30, 1000, 1976, 1977, 1993}
LineCounts == {-1, 0, 1, 2, 10, 50}

\* the texts of n lines whose lengths are drawn from LineLens
TextsOfLen(n) == { [i \in 1..n |-> Line(i, f[i])] : f \in [1..n -> LineLens] }
LogTexts == UNION { TextsOfLen(n) : n \in 1..MaxLogLines }

FlIdle == [pc |-> "idle", logs |-> EmptyText, lines |-> 0, chunks |-> <<>>]

\* a caller applies format_logs to its arguments
FormatLogs ==
    /\ fl.pc = "call"
    /\ fl' = [fl EXCEPT !.pc = "returned", !.chunks = format_logs(fl.logs, fl.lines)]
    /\ UNCHANGED <<cfgVars, CONTAINER_EVENTS_ENABLED, bridgeVars, cmd>>

-----------------------------------------------------------------------------
(* The Docker daemon's event stream and the chat channel *)

\* the events the daemon can emit: docker_client.events(decode=True)
EventKinds ==
    { [type |-> "container", action |-> "start", name |-> "web"],
      [type |-> "container", action |-> "die",   name |-> "db"],
      [type |-> "container", action |-> "die",   name |-> "cache"],
      [type |-> "container", action |-> "stop",  name |-> "web"],
      [type |-> "network",   action |-> "start", name |-> "web"] }

\* the log texts container.logs(tail=10) returns in the event worker
BridgeLogs == { EmptyText, <<Line(1, 1976), Line(2, 30)>> }

\* an event as relayed: the thread that read it, and what the toggle was when
\* the thread read it
NoEvent == [id |-> 0, type |-> "none", action |-> "none", name |-> "none",
            thr |-> 0, arrEnabled |-> FALSE]
Relayed(event, t) ==
    [id |-> event.id, type |-> event.type, action |-> event.action, name |-> event.name,
     thr |-> t, arrEnabled |-> CONTAINER_EVENTS_ENABLED]

\* a message of the bridge on the output channel; a notification records how
\* the lookup that follows it at src/main.py:118 went
Msg(kind, w, event, resolved) == [kind |-> kind, w |-> w, ev |-> event, resolved |-> resolved]

Workers == 1..MaxReady

\* a worker task: where it is, the event it handles, what the toggle was when
\* it dequeued the event, the chunks it has yet to send
IdleWorker == [pc |-> "none", ev |-> NoEvent, deqEnabled |-> FALSE, chunks |-> <<>>]
IdleThread == [st |-> "none", cursor |-> 0]

\* a transient fault (a chat send or a runtime call raising) may still happen
CanFault == hist.faults < MaxFaults
\* the fault is logged: by whom (worker w, the command of author w), about event id
Faulted(who, w, id) ==
    [hist EXCEPT !.faults = @ + 1, !.logged = @ \cup {<<who, w, id>>}]

\* a notification goes out.  In the behaviours that keep the count
\* (hist.counting), hist.staleSent is the number of notifications sent since
\* the toggle went off.
Notifying(h) ==
    IF h.counting /\ ~CONTAINER_EVENTS_ENABLED
    THEN [h EXCEPT !.staleSent = @ + 1]
    ELSE h

\* the event thread t reads next from its subscription: an event the daemon
\* emitted since t subscribed, or one the daemon emits now
NextEvents(t, max) ==
    IF thread[t].cursor <= Len(stream) THEN {stream[thread[t].cursor]}
    ELSE IF Len(stream) < max
    THEN { [id |-> Len(stream) + 1, type |-> k.type, action |-> k.action,
            name |-> k.name] : k \in EventKinds }
    ELSE {}

\* the thread advances in its subscription
Advance(t, event) ==
    /\ stream' = IF thread[t].cursor <= Len(stream) THEN stream ELSE Append(stream, event)
    /\ thread' = [thread EXCEPT ![t].cursor = @ + 1]
    /\ hist' = IF CONTAINER_EVENTS_ENABLED \/ event.type # "container" THEN hist
               ELSE [hist EXCEPT !.arrivedOff = @ \cup {<<t, event.id>>}]

\* a stream thread that relays every container event, whatever the toggle
docker_event_thread_unconditional(t, max) ==
    /\ thread[t].st = "running"
    /\ \E event \in NextEvents(t, max) :
         /\ Advance(t, event)
         /\ event_queue' = IF event.type = "container"
                           THEN Append(event_queue, Relayed(event, t))
                           ELSE event_queue
    /\ UNCHANGED <<cfgVars, CONTAINER_EVENTS_ENABLED, ready, worker, sent, cmd, fl>>

\* docker_event_thread, one iteration of its for loop: src/main.py:85-87
docker_event_thread(t, max) ==
    /\ thread[t].st = "running"
    /\ \E event \in NextEvents(t, max) :
         /\ Advance(t, event)
         /\ event_queue' = IF CONTAINER_EVENTS_ENABLED /\ event.type = "container"
                           THEN Append(event_queue, Relayed(event, t))
                           ELSE event_queue
    /\ UNCHANGED <<cfgVars, CONTAINER_EVENTS_ENABLED, ready, worker, sent, cmd, fl>>

\* the event stream ends: by an exception, which src/main.py:88-89 logs, or
\* by the generator returning, after which the thread function returns
docker_event_thread_ends(t) ==
    /\ thread[t].st = "running"
    /\ thread[t].cursor > Len(stream)
    /\ CanFault
    /\ \E raised \in BOOLEAN :
         /\ thread' = [thread EXCEPT ![t].st = IF raised THEN "raised" ELSE "returned"]
         /\ hist' = IF raised THEN Faulted("thread", t, 0)
                    ELSE [hist EXCEPT !.faults = @ + 1]
    /\ UNCHANGED <<cfgVars, CONTAINER_EVENTS_ENABLED, ready, worker, stream,
                   event_queue, sent, cmd, fl>>

-----------------------------------------------------------------------------
(* on_ready: src/main.py:166-182 *)

\* an on_ready that goes on to the greeting whether or not the guild and the
\* channel resolved
on_ready_unconditional(limit) ==
    /\ ready.pc = "idle"
    /\ ready.count < limit
    /\ \E guild \in BOOLEAN, channel \in BOOLEAN :
         /\ channel => CHANNEL_ID # 0
         /\ ready' = [count |-> ready.count + 1,
                      pc |-> "greeting",
                      ok |-> IF guild /\ channel THEN ready.ok \cup {ready.count + 1}
                             ELSE ready.ok]
    /\ UNCHANGED <<cfgVars, CONTAINER_EVENTS_ENABLED, worker, thread, stream,
                   event_queue, sent, hist, cmd, fl>>

\* the gateway reports ready; get_guild and get_channel resolve or not
\* (get_channel(0) resolves to nothing), then the greeting is being sent
on_ready(limit) ==
    /\ ready.pc = "idle"
    /\ ready.count < limit
    /\ \E guild \in BOOLEAN, channel \in BOOLEAN :
         /\ channel => CHANNEL_ID # 0
         /\ ready' = [count |-> ready.count + 1,
                      pc |-> IF guild /\ channel THEN "greeting" ELSE "idle",
                      ok |-> IF guild /\ channel THEN ready.ok \cup {ready.count + 1}
                             ELSE ready.ok]
    /\ UNCHANGED <<cfgVars, CONTAINER_EVENTS_ENABLED, worker, thread, stream,
                   event_queue, sent, hist, cmd, fl>>

\* an on_ready that creates the worker task without the greeting
on_ready_activates_first ==
    /\ ready.pc = "greeting"
    /\ worker' = [worker EXCEPT ![ready.count].pc = "created"]
    /\ ready' = [ready EXCEPT !.pc = "announce"]
    /\ UNCHANGED <<sent, hist>>
    /\ UNCHANGED <<cfgVars, CONTAINER_EVENTS_ENABLED, thread, stream, event_queue, cmd, fl>>

\* src/main.py:175-177: the greeting is delivered and the worker task created,
\* or the send raises and on_ready ends there
on_ready_greeted ==
    /\ ready.pc = "greeting"
    /\ \/ /\ sent' = Append(sent, Msg("greeting", ready.count, NoEvent, "none"))
          /\ worker' = [worker EXCEPT ![ready.count].pc = "created"]
          /\ ready' = [ready EXCEPT !.pc = "announce"]
          /\ hist' = hist
       \/ /\ CanFault
          /\ hist' = Faulted("on_ready", ready.count, 0)
          /\ ready' = [ready EXCEPT !.pc = "idle"]
          /\ UNCHANGED <<sent, worker>>
    /\ UNCHANGED <<cfgVars, CONTAINER_EVENTS_ENABLED, thread, stream, event_queue, cmd, fl>>

\* src/main.py:178: the second message
on_ready_announced ==
    /\ ready.pc = "announce"
    /\ \/ /\ sent' = Append(sent, Msg("ready", ready.count, NoEvent, "none"))
          /\ hist' = hist
       \/ /\ CanFault
          /\ hist' = Faulted("on_ready", ready.count, 0)
          /\ sent' = sent
    /\ ready' = [ready EXCEPT !.pc = "idle"]
    /\ UNCHANGED <<cfgVars, CONTAINER_EVENTS_ENABLED, worker, thread, stream,
                   event_queue, cmd, fl>>

-----------------------------------------------------------------------------
(* container_event_worker: src/main.py:91-134 *)

\* src/main.py:94-95: the task starts the stream thread, which subscribes
worker_start(w) ==
    /\ worker[w].pc = "created"
    /\ worker' = [worker EXCEPT ![w].pc = "loop"]
    /\ thread' = [thread EXCEPT ![w] = [st |-> "running", cursor |-> Len(stream) + 1]]
    /\ UNCHANGED <<cfgVars, CONTAINER_EVENTS_ENABLED, ready, stream, event_queue,
                   sent, hist, cmd, fl>>

\* a filter that forgets the monitored list
Forwardable_any_name(event) == event.action \in {"start", "die"}

\* src/main.py:104-108: the filter applied to a dequeued event
Forwardable(event) ==
    /\ MONITORED_CONTAINERS = <<>> \/ event.name \in Range(MONITORED_CONTAINERS)
    /\ event.action \in {"start", "die"}

\* a worker that takes the next event only when no command is in flight
worker_dequeue_after_command(w) ==
    /\ worker[w].pc = "loop"
    /\ event_queue # <<>>
    /\ cmd.pc \in {"idle", "done"}
    /\ LET event == Head(event_queue)
       IN  /\ event_queue' = Tail(event_queue)
           /\ worker' = IF Forwardable(event)
                        THEN [worker EXCEPT ![w] = [pc |-> "send_notif", ev |-> event,
                                                    deqEnabled |-> CONTAINER_EVENTS_ENABLED,
                                                    chunks |-> <<>>]]
                        ELSE worker
    /\ UNCHANGED <<cfgVars, CONTAINER_EVENTS_ENABLED, ready, thread, stream, sent,
                   hist, cmd, fl>>

\* src/main.py:101-114: get_nowait, the filters, and the notification handed
\* to channel.send
worker_dequeue(w) ==
    /\ worker[w].pc = "loop"
    /\ event_queue # <<>>
    /\ LET event == Head(event_queue)
       IN  /\ event_queue' = Tail(event_queue)
           /\ worker' = IF Forwardable(event)
                        THEN [worker EXCEPT ![w] = [pc |-> "send_notif", ev |-> event,
                                                    deqEnabled |-> CONTAINER_EVENTS_ENABLED,
                                                    chunks |-> <<>>]]
                        ELSE worker
    /\ UNCHANGED <<cfgVars, CONTAINER_EVENTS_ENABLED, ready, thread, stream, sent,
                   hist, cmd, fl>>

\* a loop whose body lets the exception out: the task ends
worker_dies(w) == [worker EXCEPT ![w] = [IdleWorker EXCEPT !.pc = "dead"]]

\* a worker back at the top of its loop
worker_loop(w) == [worker EXCEPT ![w] = [IdleWorker EXCEPT !.pc = "loop"]]

\* src/main.py:132-134: the except clause of the loop body
worker_recover(w) == worker_loop(w)

\* a worker that says nothing when the container of a die event is gone
worker_after_notif_silent(w) ==
    LET event == worker[w].ev
    IN  IF event.action # "die"
        THEN /\ sent' = Append(sent, Msg("notif", w, event, "none"))
             /\ worker' = worker_loop(w)
             /\ hist' = Notifying(hist)
        ELSE \/ \E logs \in BridgeLogs :
                  /\ sent' = Append(sent, Msg("notif", w, event, "found"))
                  /\ worker' = [worker EXCEPT ![w].pc = "send_chunk",
                                  ![w].chunks = format_logs(logs, EventLogTail)]
                  /\ hist' = Notifying(hist)
             \/ /\ sent' = Append(sent, Msg("notif", w, event, "not_found"))
                /\ worker' = worker_loop(w)
                /\ hist' = Notifying(hist)

\* src/main.py:114-126, up to the next send: channel.send(message) returns;
\* for a die event the container is looked up and its logs are read and
\* formatted, or it is not found, or one of the calls raises
worker_after_notif(w) ==
    LET event == worker[w].ev
    IN  IF event.action # "die"
        THEN /\ sent' = Append(sent, Msg("notif", w, event, "none"))
             /\ worker' = worker_loop(w)
             /\ hist' = Notifying(hist)
        ELSE \/ \E logs \in BridgeLogs :
                  /\ sent' = Append(sent, Msg("notif", w, event, "found"))
                  /\ worker' = [worker EXCEPT ![w].pc = "send_chunk",
                                  ![w].chunks = format_logs(logs, EventLogTail)]
                  /\ hist' = Notifying(hist)
             \/ /\ sent' = Append(sent, Msg("notif", w, event, "not_found"))
                /\ worker' = [worker EXCEPT ![w].pc = "send_nologs"]
                /\ hist' = Notifying(hist)
             \/ /\ CanFault
                /\ sent' = Append(sent, Msg("notif", w, event, "raised"))
                /\ worker' = worker_recover(w)
                /\ hist' = Notifying(Faulted("worker", w, event.id))

\* src/main.py:114: channel.send(message) returns or raises
worker_send_notif(w) ==
    /\ worker[w].pc = "send_notif"
    /\ \/ worker_after_notif(w)
       \/ /\ CanFault
          /\ hist' = Faulted("worker", w, worker[w].ev.id)
          /\ worker' = worker_recover(w)
          /\ sent' = sent
    /\ UNCHANGED <<cfgVars, CONTAINER_EVENTS_ENABLED, ready, thread, stream,
                   event_queue, cmd, fl>>

\* src/main.py:123-124: one chunk of the log excerpt is sent
worker_send_chunk(w) ==
    /\ worker[w].pc = "send_chunk"
    /\ \/ /\ sent' = Append(sent, Msg("logs", w, worker[w].ev, "none"))
          /\ worker' = IF Len(worker[w].chunks) > 1
                       THEN [worker EXCEPT ![w].chunks = Tail(@)]
                       ELSE worker_loop(w)
          /\ hist' = hist
       \/ /\ CanFault
          /\ hist' = Faulted("worker", w, worker[w].ev.id)
          /\ worker' = worker_recover(w)
          /\ sent' = sent
    /\ UNCHANGED <<cfgVars, CONTAINER_EVENTS_ENABLED, ready, thread, stream,
                   event_queue, cmd, fl>>

\* src/main.py:126: the "not found for logs" notice is sent
worker_send_nologs(w) ==
    /\ worker[w].pc = "send_nologs"
    /\ \/ /\ sent' = Append(sent, Msg("nologs", w, worker[w].ev, "none"))
          /\ worker' = worker_loop(w)
          /\ hist' = hist
       \/ /\ CanFault
          /\ hist' = Faulted("worker", w, worker[w].ev.id)
          /\ worker' = worker_recover(w)
          /\ sent' = sent
    /\ UNCHANGED <<cfgVars, CONTAINER_EVENTS_ENABLED, ready, thread, stream,
                   event_queue, cmd, fl>>

-----------------------------------------------------------------------------
(* The command handlers: src/main.py:184-379 *)

Verbs == {"status", "logs", "restart", "toggle_notifications", "help"}

NoCmd == [verb |-> "none", author |-> 0, channel |-> 0, name |-> NoName, lines |-> 0,
          pc |-> "idle", auth |-> "none", replies |-> <<>>, calls |-> <<>>,
          container |-> NoName, enabledBefore |-> FALSE]

Call(op, target) == <<op, target>>
CallsOf(c) == {c.calls[i][1] : i \in 1..Len(c.calls)}

\* a reply: its kind and the name it carries, if any
R(kind) == <<kind, NoName>>

\* the handler replies and returns
Reply(c, kind) == [c EXCEPT !.replies = Append(@, R(kind)), !.pc = "done"]

\* a handler that lets the exception of its body out: the dispatcher's task
\* ends with it
handler_raises(c) == [c EXCEPT !.pc = "crashed"]

\* the except clause of a handler, src/main.py:201-203, :237-239, :276-278,
\* :352-354, :377-379: the exception is logged and replied, the handler returns
handler_except(c) == Reply(c, "error")

\* get_container_by_name(name) in a handler: src/main.py:42-47.  The lookup
\* finds the container, returns None, or raises another error, which the
\* handler's except clause turns into an error reply.
Lookup(c, next) ==
    \/ /\ cmd' = [c EXCEPT !.calls = Append(@, Call("get", c.name)),
                           !.container = c.name, !.pc = next]
       /\ hist' = hist
    \/ /\ cmd' = [c EXCEPT !.calls = Append(@, Call("get", c.name)),
                           !.replies = Append(@, R("not_found")), !.pc = "suggest"]
       /\ hist' = hist
    \/ /\ CanFault
       /\ cmd' = handler_except([c EXCEPT !.calls = Append(@, Call("get", c.name))])
       /\ hist' = Faulted(c.verb, c.author, 0)

\* a toggle command that switches the notifications on, whatever they were
toggle_notifications_enables(c) ==
    /\ CONTAINER_EVENTS_ENABLED' = TRUE
    /\ cmd' = Reply(c, IF CONTAINER_EVENTS_ENABLED' THEN "enabled" ELSE "disabled")
    /\ hist' = [hist EXCEPT !.staleSent = 0]

\* toggle_notifications: src/main.py:193-200
toggle_notifications_body(c) ==
    /\ CONTAINER_EVENTS_ENABLED' = ~CONTAINER_EVENTS_ENABLED
    /\ cmd' = Reply(c, IF CONTAINER_EVENTS_ENABLED' THEN "enabled" ELSE "disabled")
    /\ hist' = [hist EXCEPT !.staleSent = 0]

\* help_command: src/main.py:364-376
help_command_body(c) ==
    /\ cmd' = Reply(c, "help")
    /\ UNCHANGED <<CONTAINER_EVENTS_ENABLED, hist>>

\* restart_container up to its first reply: src/main.py:251-261
restart_container_body(c) ==
    /\ Lookup(c, "restarting")
    /\ UNCHANGED CONTAINER_EVENTS_ENABLED

\* get_logs up to its first reply: src/main.py:213-224
get_logs_body(c) ==
    /\ Lookup(c, "retrieving")
    /\ UNCHANGED CONTAINER_EVENTS_ENABLED

\* container_status with a name, up to the lookup: src/main.py:289-297
container_status_one(c) ==
    /\ Lookup(c, "status_one")
    /\ UNCHANGED CONTAINER_EVENTS_ENABLED

RECURSIVE StatusCalls(_, _)
\* src/main.py:314-322: each monitored name is looked up, and reloaded when
\* it is among those found
StatusCalls(names, found) ==
    IF names = <<>> THEN <<>>
    ELSE <<Call("get", names[1])>>
         \o (IF names[1] \in found THEN <<Call("reload", names[1])>> ELSE <<>>)
         \o StatusCalls(Tail(names), found)

\* container_status without a name: src/main.py:311-350; the first lookup or
\* the listing may raise
container_status_all(c) ==
    /\ \E found \in SUBSET Names :
         LET calls == IF MONITORED_CONTAINERS # <<>>
                      THEN StatusCalls(MONITORED_CONTAINERS, found)
                      ELSE <<Call("list", NoName)>>
             containers == IF MONITORED_CONTAINERS # <<>>
                           THEN found \cap Range(MONITORED_CONTAINERS) ELSE found
         IN  \/ /\ cmd' = Reply([c EXCEPT !.calls = calls],
                                 IF containers = {} THEN "no_container" ELSE "status_all")
                /\ hist' = hist
             \/ /\ CanFault
                /\ cmd' = handler_except([c EXCEPT !.calls = <<Head(calls)>>])
                /\ hist' = Faulted(c.verb, c.author, 0)
    /\ UNCHANGED CONTAINER_EVENTS_ENABLED

\* the body a handler runs once check_authorizations has passed
handler_body(c) ==
    CASE c.verb = "toggle_notifications" -> toggle_notifications_body(c)
      [] c.verb = "help" -> help_command_body(c)
      [] c.verb = "restart" -> restart_container_body(c)
      [] c.verb = "logs" -> get_logs_body(c)
      [] c.verb = "status" /\ c.name # NoName -> container_status_one(c)
      [] OTHER -> container_status_all(c)

\* a command arrives and its handler runs to its first suspension: the try
\* block opens with check_authorizations, whose exception is replied
invoke(verb, author, channel, name, lines) ==
    /\ cmd.pc \in {"idle", "done"}
    /\ LET auth == check_authorizations(author, channel, name)
           c == [NoCmd EXCEPT !.verb = verb, !.author = author, !.channel = channel,
                              !.name = name, !.lines = lines, !.auth = auth,
                              !.enabledBefore = CONTAINER_EVENTS_ENABLED]
       IN  IF auth # "ok"
           THEN /\ cmd' = Reply(c, auth)
                /\ UNCHANGED <<CONTAINER_EVENTS_ENABLED, hist>>
           ELSE handler_body(c)
    /\ UNCHANGED <<cfgVars, ready, worker, thread, stream, event_queue, sent, fl>>

\* a handler that goes on with the suggested container
offer_suggestion_acts ==
    /\ cmd.pc = "suggest"
    /\ \E s \in Names :
         cmd' = [cmd EXCEPT !.calls = Append(@, Call("list", NoName)),
                            !.replies = Append(@, <<"did_you_mean", s>>),
                            !.container = s,
                            !.pc = IF cmd.verb = "restart" THEN "restarting" ELSE "done"]
    /\ UNCHANGED <<cfgVars, CONTAINER_EVENTS_ENABLED, bridgeVars, fl>>

\* offer_suggestion and the hint: src/main.py:152-164 and :218-221, :255-258,
\* :294-297.  The listing is any set of containers; get_close_matches picks
\* its best match among the candidates, or none clears the cutoff; or the
\* listing raises.
offer_suggestion ==
    /\ cmd.pc = "suggest"
    /\ LET c == [cmd EXCEPT !.calls = Append(@, Call("list", NoName))]
       IN  \/ /\ \E listing \in SUBSET Names :
                   LET container_names == IF MONITORED_CONTAINERS # <<>>
                                          THEN listing \cap Range(MONITORED_CONTAINERS)
                                          ELSE listing
                   IN  \E s \in container_names \cup {NoName} :
                         cmd' = [c EXCEPT !.replies = IF s = NoName THEN @
                                                      ELSE Append(@, <<"did_you_mean", s>>),
                                          !.pc = "done"]
              /\ hist' = hist
           \/ /\ CanFault
              /\ cmd' = handler_except(c)
              /\ hist' = Faulted(cmd.verb, cmd.author, 0)
    /\ UNCHANGED <<cfgVars, CONTAINER_EVENTS_ENABLED, ready, worker, thread, stream,
                   event_queue, sent, fl>>

\* src/main.py:261-264: the confirmation is out, container.restart() is called
restart_call ==
    /\ cmd.pc = "restarting"
    /\ LET c == [cmd EXCEPT !.replies = Append(@, R("restarting")),
                            !.calls = Append(@, Call("restart", cmd.container))]
       IN  \/ /\ cmd' = [c EXCEPT !.pc = "sleeping"]
              /\ hist' = hist
           \/ /\ CanFault
              /\ cmd' = handler_except(c)
              /\ hist' = Faulted(cmd.verb, cmd.author, 0)
    /\ UNCHANGED <<cfgVars, CONTAINER_EVENTS_ENABLED, ready, worker, thread, stream,
                   event_queue, sent, fl>>

\* src/main.py:267-274: after the sleep the container is reloaded and its
\* status reported, or the reload raises
restart_report ==
    /\ cmd.pc = "sleeping"
    /\ LET c == [cmd EXCEPT !.calls = Append(@, Call("reload", cmd.container))]
       IN  \/ /\ \E status \in {"running", "exited"} :
                   cmd' = Reply(c, IF status = "running" THEN "restarted" ELSE "status")
              /\ hist' = hist
           \/ /\ CanFault
              /\ cmd' = handler_except(c)
              /\ hist' = Faulted(cmd.verb, cmd.author, 0)
    /\ UNCHANGED <<cfgVars, CONTAINER_EVENTS_ENABLED, ready, worker, thread, stream,
                   event_queue, sent, fl>>

\* src/main.py:224-235: the logs are read, formatted and sent chunk by chunk
logs_send ==
    /\ cmd.pc = "retrieving"
    /\ LET c == [cmd EXCEPT !.replies = Append(@, R("retrieving")),
                            !.calls = Append(@, Call("logs", cmd.container))]
       IN  \/ /\ \E logs \in BridgeLogs :
                   cmd' = [c EXCEPT !.replies = @ \o <<R("header")>>
                                       \o [i \in 1..Len(format_logs(logs, cmd.lines)) |-> R("chunk")],
                                    !.pc = "done"]
              /\ hist' = hist
           \/ /\ CanFault
              /\ cmd' = handler_except(c)
              /\ hist' = Faulted(cmd.verb, cmd.author, 0)
    /\ UNCHANGED <<cfgVars, CONTAINER_EVENTS_ENABLED, ready, worker, thread, stream,
                   event_queue, sent, fl>>

\* src/main.py:299-309: the container is reloaded and its status replied, or
\* the reload raises
status_report ==
    /\ cmd.pc = "status_one"
    /\ LET c == [cmd EXCEPT !.calls = Append(@, Call("reload", cmd.container))]
       IN  \/ /\ cmd' = Reply(c, "status_one")
              /\ hist' = hist
           \/ /\ CanFault
              /\ cmd' = handler_except(c)
              /\ hist' = Faulted(cmd.verb, cmd.author, 0)
    /\ UNCHANGED <<cfgVars, CONTAINER_EVENTS_ENABLED, ready, worker, thread, stream,
                   event_queue, sent, fl>>

\* on_command_error, src/main.py:382-390: the dispatcher could not hand the
\* command to a handler.  An unknown verb is ignored, a missing required
\* argument is replied, any other error (an argument that does not convert) is
\* logged and replied.  No handler body runs, so no guard either.
on_command_error(verb, author, channel, error) ==
    /\ cmd.pc \in {"idle", "done"}
    /\ LET c == [NoCmd EXCEPT !.verb = verb, !.author = author, !.channel = channel,
                              !.enabledBefore = CONTAINER_EVENTS_ENABLED]
       IN  CASE error = "CommandNotFound" ->
                    cmd' = [c EXCEPT !.pc = "done"] /\ hist' = hist
             [] error = "MissingRequiredArgument" ->
                    cmd' = Reply(c, "missing_argument") /\ hist' = hist
             [] OTHER ->
                    /\ cmd' = Reply(c, "error")
                    /\ hist' = [hist EXCEPT !.logged = @ \cup {<<"on_command_error", author, 0>>}]
    /\ UNCHANGED <<cfgVars, CONTAINER_EVENTS_ENABLED, ready, worker, thread, stream,
                   event_queue, sent, fl>>

-----------------------------------------------------------------------------
(* Specifications *)

InitConfig ==
    /\ AUTHORIZED_USERS \in {Split(e) : e \in AuthEnvs}
    /\ CHANNEL_ID \in ChannelIds
    /\ MONITORED_CONTAINERS \in MonitoredEnvs
    /\ CONTAINER_EVENTS_ENABLED \in BOOLEAN

\* nothing has run yet; counting says whether the behaviour keeps the count
\* of the notifications sent since the toggle went off
InitObserved(counting) ==
    /\ ready = [count |-> 0, pc |-> "idle", ok |-> {}]
    /\ worker = [w \in Workers |-> IdleWorker]
    /\ thread = [w \in Workers |-> IdleThread]
    /\ stream = <<>>
    /\ event_queue = <<>>
    /\ sent = <<>>
    /\ hist = [faults |-> 0, logged |-> {}, arrivedOff |-> {}, staleSent |-> 0,
               counting |-> counting]
    /\ cmd = NoCmd

InitRest == InitObserved(FALSE)

Init == InitConfig /\ InitRest /\ fl = FlIdle

\* the Event Bridge steps of worker and thread w
WorkerTask(w) ==
    \/ worker_start(w)
    \/ worker_dequeue(w)
    \/ worker_send_notif(w)
    \/ worker_send_chunk(w)
    \/ worker_send_nologs(w)

Bridge(w, max) ==
    \/ WorkerTask(w)
    \/ docker_event_thread(w, max)
    \/ docker_event_thread_ends(w)

\* the authorized user of the bridge's configuration toggles the notifications
\* from the command channel
Toggle == invoke("toggle_notifications", 1, CHANNEL_ID, NoName, 0)

\* the configurations under which on_ready can activate the bridge
InitBridge ==
    /\ AUTHORIZED_USERS = Split(<<"1">>)
    /\ CHANNEL_ID = 7
    /\ MONITORED_CONTAINERS \in MonitoredEnvs
    /\ CONTAINER_EVENTS_ENABLED \in BOOLEAN
    /\ InitRest
    /\ fl = FlIdle

\* the Event Bridge with the toggle command, the gateway reporting ready once
Next ==
    \/ on_ready(1)
    \/ on_ready_greeted
    \/ on_ready_announced
    \/ \E w \in Workers : Bridge(w, MaxEvents)
    \/ Toggle

Spec == InitBridge /\ [][Next]_vars

\* the same bridge and toggle, started with notifications enabled and
\* counting the notifications sent since the toggle went off
InitStale ==
    /\ AUTHORIZED_USERS = Split(<<"1">>)
    /\ CHANNEL_ID = 7
    /\ MONITORED_CONTAINERS \in MonitoredEnvs
    /\ CONTAINER_EVENTS_ENABLED = TRUE
    /\ InitObserved(TRUE)
    /\ fl = FlIdle

SpecStale == InitStale /\ [][Next]_vars

\* the bridge with notifications left enabled; the event loop runs the worker
\* task whenever it can take a step, and a send returns or raises
InitEnabled == InitBridge /\ CONTAINER_EVENTS_ENABLED

NextBridge ==
    \/ on_ready(1)
    \/ on_ready_greeted
    \/ on_ready_announced
    \/ \E w \in Workers : Bridge(w, MaxEvents)

FairSpec ==
    InitEnabled /\ [][NextBridge]_vars /\ \A w \in Workers : WF_vars(WorkerTask(w))

\* the bridge alone with notifications enabled, the gateway reporting ready
\* again after a reconnect whose session could not be resumed
InitReconnect ==
    /\ AUTHORIZED_USERS = Split(<<"1">>)
    /\ CHANNEL_ID = 7
    /\ MONITORED_CONTAINERS = <<"web", "db">>
    /\ CONTAINER_EVENTS_ENABLED = TRUE
    /\ InitRest
    /\ fl = FlIdle

NextReconnect ==
    \/ on_ready(MaxReady)
    \/ on_ready_greeted
    \/ on_ready_announced
    \/ \E w \in Workers : Bridge(w, MaxReconnectEvents)

SpecReconnect == InitReconnect /\ [][NextReconnect]_vars

\* the commands a user can send
Commands ==
    \E author \in UserIds, channel \in OriginChannels :
        \/ invoke("toggle_notifications", author, channel, NoName, 0)
        \/ invoke("help", author, channel, NoName, 0)
        \/ \E name \in Names \cup {NoName} : invoke("status", author, channel, name, 0)
        \/ \E name \in Names : invoke("restart", author, channel, name, 0)
        \/ \E name \in Names, lines \in {1, 50} : invoke("logs", author, channel, name, lines)

NextCmd ==
    \/ Commands
    \/ offer_suggestion
    \/ restart_call
    \/ restart_report
    \/ logs_send
    \/ status_report

SpecCmd == Init /\ [][NextCmd]_vars

\* the steps a handler takes after its first suspension
HandlerSteps ==
    \/ offer_suggestion
    \/ restart_call
    \/ restart_report
    \/ logs_send
    \/ status_report

\* the commands the dispatcher cannot hand to a handler, here of a caller
\* that is not authorized
DispatchErrors ==
    \E channel \in OriginChannels :
        \/ on_command_error("unknown", 3, channel, "CommandNotFound")
        \/ on_command_error("restart", 3, channel, "MissingRequiredArgument")
        \/ on_command_error("logs", 3, channel, "BadArgument")

\* the commands sent while the bridge runs: the toggle by an authorized and by
\* another caller, the other commands by the authorized caller
SystemCommands ==
    \/ \E author \in {1, 3}, channel \in OriginChannels :
           invoke("toggle_notifications", author, channel, NoName, 0)
    \/ \E channel \in OriginChannels : invoke("help", 1, channel, NoName, 0)
    \/ \E name \in {"web", NoName} : invoke("status", 1, 7, name, 0)
    \/ invoke("restart", 1, 7, "web", 0)
    \/ invoke("logs", 1, 7, "web", 1)

\* the whole bot: the gateway reports ready once, the guild and the channel
\* resolve or not, the bridge relays events and the dispatcher serves commands
InitSystem ==
    /\ AUTHORIZED_USERS = Split(<<"1">>)
    /\ CHANNEL_ID \in ChannelIds
    /\ MONITORED_CONTAINERS = <<"web", "db">>
    /\ CONTAINER_EVENTS_ENABLED \in BOOLEAN
    /\ InitRest
    /\ fl = FlIdle

NextSystem ==
    \/ on_ready(1)
    \/ on_ready_greeted
    \/ on_ready_announced
    \/ \E w \in Workers : Bridge(w, MaxReconnectEvents)
    \/ SystemCommands
    \/ DispatchErrors
    \/ HandlerSteps

SpecSystem == InitSystem /\ [][NextSystem]_vars

InitFormat ==
    /\ AUTHORIZED_USERS = Split(<<>>)
    /\ CHANNEL_ID = 0
    /\ MONITORED_CONTAINERS = <<>>
    /\ CONTAINER_EVENTS_ENABLED = FALSE
    /\ InitRest
    /\ \E logs \in LogTexts, lines \in LineCounts :
         fl = [pc |-> "call", logs |-> logs, lines |-> lines, chunks |-> <<>>]

SpecFormat == InitFormat /\ [][FormatLogs]_vars

-----------------------------------------------------------------------------
(* Properties *)

InList(author) == \E i \in 1..Len(AUTHORIZED_USERS) : AUTHORIZED_USERS[i] = Str(author)
Issued == cmd.verb # "none"
ActingOps == {"logs", "restart", "reload"}

\* C1: with a non-empty list of authorized users, a command of a caller that
\* is not in the list, whatever the command, ends with the one reply "not
\* authorized" and has made no runtime call (lookup, logs, restart, listing,
\* reload) and no toggle change.
C1_UnauthorizedDeniedNoSideEffect ==
    (Issued /\ AUTHORIZED_USERS # <<>> /\ ~InList(cmd.author)) =>
        /\ cmd.pc = "done"
        /\ cmd.replies = <<R("not_authorized")>>
        /\ cmd.calls = <<>>
        /\ CONTAINER_EVENTS_ENABLED = cmd.enabledBefore

C1_Witness ==
    /\ cmd.verb = "restart"
    /\ AUTHORIZED_USERS = Split(<<"1", ",", "2">>)
    /\ cmd.author = 3
    /\ cmd.channel = CHANNEL_ID
    /\ cmd.replies = <<R("not_authorized")>>

\* C2: when the authorized-users configuration is empty, no command is
\* denied for the reason "not authorized", whoever the caller.
C2_EmptyConfigPermissive ==
    (Issued /\ AUTHORIZED_USERS = Split(<<>>)) => cmd.auth # "not_authorized"

\* C3: with a non-zero command channel, a command from any other channel is
\* rejected whether or not its caller is authorized: one error reply, no
\* runtime call, the toggle as it was.
C3_WrongChannelRejected ==
    (Issued /\ CHANNEL_ID # 0 /\ cmd.channel # CHANNEL_ID) =>
        /\ cmd.pc = "done"
        /\ cmd.auth \in {"not_authorized", "wrong_channel"}
        /\ InList(cmd.author) => cmd.auth = "wrong_channel"
        /\ cmd.replies = <<R(cmd.auth)>>
        /\ cmd.calls = <<>>
        /\ CONTAINER_EVENTS_ENABLED = cmd.enabledBefore

C3_Witness ==
    /\ cmd.verb = "toggle_notifications"
    /\ InList(cmd.author)
    /\ CHANNEL_ID = 7
    /\ cmd.channel = 8
    /\ cmd.replies = <<R("wrong_channel")>>

MonitoredOk(name) ==
    MONITORED_CONTAINERS = <<>> \/ name \in Range(MONITORED_CONTAINERS)
Notifs == SelectSeq(sent, LAMBDA m : m.kind = "notif")

\* a notification of worker w's event is delivered in this step
Notified(w) ==
    /\ worker[w].pc = "send_notif"
    /\ Len(sent') = Len(sent) + 1
    /\ sent'[Len(sent')].kind = "notif"
    /\ sent'[Len(sent')].w = w

\* C4 as stated: whenever a notification is sent, the toggle was true when
\* its event was dequeued, and the subject is monitored or nothing is
\* monitored.
C4_EnabledAtDequeue ==
    [][\A w \in Workers :
          Notified(w) => worker[w].deqEnabled /\ MonitoredOk(worker[w].ev.name)]_vars

\* what the code keeps of C4: for every notification sent, the toggle was true
\* when the stream thread read its event from the runtime stream and put it on
\* the relay queue, and the subject is monitored or nothing is monitored.
C4_EnabledAtArrival ==
    \A i \in 1..Len(Notifs) :
        Notifs[i].ev.arrEnabled /\ MonitoredOk(Notifs[i].ev.name)

\* the notification of a monitored container is out, of an event that was
\* put on the queue with the toggle on; the toggle is off by now
C4_Witness ==
    /\ ~CONTAINER_EVENTS_ENABLED
    /\ MONITORED_CONTAINERS # <<>>
    /\ \E i \in 1..Len(Notifs) : Notifs[i].ev.arrEnabled /\ Notifs[i].ev.action = "die"

Held == Range(event_queue) \cup {worker[w].ev : w \in Workers}
             \cup {sent[i].ev : i \in 1..Len(sent)}

\* C5: an event read from the stream while the toggle is off is dropped: it
\* is not on the relay queue, not in a worker's hands and is never sent, also
\* when the toggle is on again.
C5_NoReplayAcrossToggle ==
    \A e \in Held : e.id # 0 => <<e.thr, e.id>> \notin hist.arrivedOff

\* an event arrived while the toggle was off, the toggle is on again and a
\* later event has been forwarded
C5_Witness ==
    /\ CONTAINER_EVENTS_ENABLED
    /\ \E p \in hist.arrivedOff :
         /\ stream[p[2]].type = "container"
         /\ stream[p[2]].action = "start"
         /\ \E i \in 1..Len(Notifs) : Notifs[i].ev.id > p[2]

IsPrefix(s, t) == Len(s) <= Len(t) /\ \A i \in 1..Len(s) : s[i] = t[i]
Ids(s) == [i \in 1..Len(s) |-> s[i].id]
Passing == SelectSeq(stream, LAMBDA e : e.type = "container"
                                        /\ e.action \in {"start", "die"}
                                        /\ MonitoredOk(e.name))

\* C6: with notifications enabled and no fault, the notifications sent are,
\* in order, the events of the stream that are container events, of action
\* start or die, of a monitored subject (each once, none else).
C6_ForwardedIsFilteredStream ==
    (hist.faults = 0 /\ hist.arrivedOff = {}) =>
        IsPrefix([i \in 1..Len(Notifs) |-> Notifs[i].ev.id], Ids(Passing))

\* the same, and all forwarded once the bridge has nothing left to do
C6_AllForwarded ==
    (/\ hist.faults = 0 /\ hist.arrivedOff = {}
     /\ event_queue = <<>>
     /\ \A w \in Workers : /\ worker[w].pc \in {"none", "loop"}
                           /\ thread[w].st = "running" => thread[w].cursor > Len(stream))
    => [i \in 1..Len(Notifs) |-> Notifs[i].ev.id] = Ids(Passing)

By(w) == SelectSeq(sent, LAMBDA m : m.w = w /\ m.kind \in {"notif", "logs", "nologs"})

Queued(id) == \E k \in 1..Len(event_queue) : event_queue[k].id = id

\* C8: every event on the relay queue is dequeued later on, also the events
\* put there after an event whose send or log retrieval raised; the worker
\* never leaves its loop.
C8_FaultNeverStopsWorker ==
    /\ [](\A w \in Workers : worker[w].pc # "dead")
    /\ \A id \in 1..MaxEvents : Queued(id) ~> ~Queued(id)

\* a fault on one event was caught and logged, and a later event has been
\* dequeued and forwarded by the same worker
C8_Witness ==
    \E w \in Workers, i \in 1..Len(Notifs) :
        /\ Notifs[i].w = w
        /\ \E id \in 1..MaxEvents :
             /\ <<"worker", w, id>> \in hist.logged
             /\ id < Notifs[i].ev.id
        /\ worker[w].pc = "loop"

\* C9: in a command on a named container, logs, restart and reload are
\* called only on the container the lookup resolved by the name the caller
\* gave; when the lookup finds nothing the replies are "not found",
\* optionally followed by one suggestion, none of those calls is made and
\* the handler returns.
C9_NotFoundNeverActs ==
    (Issued /\ cmd.name # NoName) =>
        /\ \A i \in 1..Len(cmd.calls) :
             cmd.calls[i][1] \in ActingOps =>
                 /\ cmd.calls[i][2] = cmd.name
                 /\ cmd.container = cmd.name
                 /\ \E j \in 1..(i - 1) : cmd.calls[j] = Call("get", cmd.name)
        /\ R("not_found") \in Range(cmd.replies) =>
             /\ cmd.container = NoName
             /\ cmd.pc \in {"suggest", "done"}
             /\ CallsOf(cmd) \subseteq {"get", "list"}
             /\ \/ cmd.replies = <<R("not_found")>>
                \/ /\ Len(cmd.replies) = 2
                   /\ cmd.replies[1] = R("not_found")
                   /\ cmd.replies[2][1] \in {"did_you_mean", "error"}

C9_Witness ==
    /\ cmd.verb = "restart"
    /\ cmd.pc = "done"
    /\ cmd.name = "cache"
    /\ cmd.replies = <<R("not_found"), <<"did_you_mean", "web">>>>

\* C10: every chunk format_logs returns has at most 2000 characters, whatever
\* the lengths of the log lines.
C10_ChunksUnderLimit ==
    fl.pc = "returned" =>
        \A i \in 1..Len(fl.chunks) : ChunkLen(fl.chunks[i]) <= DiscordLimit

RECURSIVE Flatten(_)
\* the lines of the chunks, read in order
Flatten(chunks) ==
    IF chunks = <<>> THEN <<>> ELSE chunks[1].lines \o Flatten(Tail(chunks))

\* the last min(n, total) lines of a text (none for n <= 0)
LastLines(logs, n) ==
    LET all == StripSplit(logs)
        k == IF n <= 0 THEN 0 ELSE IF n < Len(all) THEN n ELSE Len(all)
    IN  SubSeq(all, Len(all) - k + 1, Len(all))

FitsOneMessage(ls) == FenceOpenLen + BodyLen(ls) + FenceCloseLen <= DiscordLimit

\* C11: for a non-empty log text and a line count n, the chunks of
\* format_logs, read in order, hold exactly the last min(n, total) lines, each
\* whole and once, in the original order; when these lines fit in one message
\* exactly one chunk is returned.
C11_ChunksAreLastLines ==
    (fl.pc = "returned" /\ fl.logs # EmptyText) =>
        /\ \A i \in 1..Len(fl.chunks) : fl.chunks[i].fenced
        /\ Flatten(fl.chunks) = LastLines(fl.logs, fl.lines)
        /\ (LastLines(fl.logs, fl.lines) # <<>> /\ FitsOneMessage(LastLines(fl.logs, fl.lines)))
             => Len(fl.chunks) = 1

\* the part of C11 that the code keeps: for n >= 1 the lines of the chunks are
\* the last min(n, total) lines, whole, once and in order
C11_LinesKeptForPositiveCounts ==
    (fl.pc = "returned" /\ fl.logs # EmptyText /\ fl.lines >= 1) =>
        /\ \A i \in 1..Len(fl.chunks) : fl.chunks[i].fenced
        /\ Flatten(fl.chunks) = LastLines(fl.logs, fl.lines)

\* the one chunk promised for lines that fit in one message, for n >= 1
C11_OneChunkWhenFits ==
    (fl.pc = "returned" /\ fl.logs # EmptyText /\ fl.lines >= 1
     /\ FitsOneMessage(LastLines(fl.logs, fl.lines)))
        => Len(fl.chunks) = 1

\* a runtime call of the handler in flight raises in this step
HandlerFault == cmd' # cmd /\ hist'.faults = hist.faults + 1

Waiting(t) == thread[t].st = "running" /\ thread[t].cursor > Len(stream)
\* the command in flight is suspended at an await
Suspended == cmd.pc \notin {"idle", "done", "crashed"}

Greeted(w) == \E j \in 1..Len(sent) : sent[j].kind = "greeting" /\ sent[j].w = w

\* C14: the greeting is sent before the bridge is activated: a worker or a
\* stream thread exists only when the greeting of its on_ready is on the
\* channel, the first message on the channel is the greeting, and every event
\* notification, log excerpt or notice comes after the greeting of its worker.
C14_GreetingBeforeBridge ==
    /\ \A w \in Workers :
         (worker[w].pc # "none" \/ thread[w].st # "none") => Greeted(w)
    /\ sent # <<>> => sent[1].kind = "greeting"
    /\ \A i \in 1..Len(sent) :
         sent[i].kind \in {"notif", "logs", "nologs"} =>
             \E j \in 1..(i - 1) : sent[j].kind = "greeting" /\ sent[j].w = sent[i].w

\* the channel resolved, the greeting went out first and an event notification
\* followed the two messages of on_ready
C14_Witness ==
    /\ Len(sent) >= 3
    /\ sent[1].kind = "greeting"
    /\ sent[2].kind = "ready"
    /\ sent[3].kind = "notif"

\* C15: whatever the number of ready notifications, at most one stream thread
\* and at most one worker exist, and no event is forwarded twice.
C15_SubscribesOnce ==
    /\ Cardinality({w \in Workers : thread[w].st # "none"}) <= 1
    /\ Cardinality({w \in Workers : worker[w].pc # "none"}) <= 1
    /\ \A i, j \in 1..Len(Notifs) : Notifs[i].ev.id = Notifs[j].ev.id => i = j

\* the part of C15 on forwarding alone: no event is forwarded twice
C15_ForwardedOnce ==
    \A i, j \in 1..Len(Notifs) : Notifs[i].ev.id = Notifs[j].ev.id => i = j

\* C16: the relay queue is bounded: it never holds all the events the daemon
\* emits while none is forwarded; its capacity is a fixed number, here any
\* number below the number of events of a behaviour.
C16_QueueBounded == Len(event_queue) < MaxEvents

\* the part of C16 on the producer: a stream thread that has an event to read
\* is never kept from reading and relaying it, whatever the queue holds
C16_ProducerNeverBlocks ==
    \A t \in Workers :
        (thread[t].st = "running" /\ NextEvents(t, MaxEvents) # {})
            => ENABLED docker_event_thread(t, MaxEvents)

\* this step is a toggle_notifications command of an authorized caller in the
\* command channel (or in any channel when none is configured)
AuthorizedToggle ==
    /\ cmd' # cmd
    /\ cmd'.verb = "toggle_notifications"
    /\ cmd'.pc = "done"
    /\ InList(cmd'.author)
    /\ cmd'.channel = CHANNEL_ID \/ CHANNEL_ID = 0

\* C17: the toggle changes only in a step that is an authorized
\* toggle_notifications in the right channel; such a step negates it and
\* replies the new state (so two of them in a row restore it); every other
\* step, a denied toggle, another command, a step of a handler, of on_ready,
\* of a worker or of a stream thread, leaves it as it was.
C17_ToggleOnlyByToggleCommand ==
    [][/\ CONTAINER_EVENTS_ENABLED' # CONTAINER_EVENTS_ENABLED => AuthorizedToggle
       /\ AuthorizedToggle =>
            /\ CONTAINER_EVENTS_ENABLED' = ~CONTAINER_EVENTS_ENABLED
            /\ cmd'.enabledBefore = CONTAINER_EVENTS_ENABLED
            /\ cmd'.replies = <<R(IF CONTAINER_EVENTS_ENABLED' THEN "enabled"
                                                               ELSE "disabled")>>]_vars

\* the bridge is active and has forwarded an event; the authorized caller has
\* switched the notifications off from the command channel
C17_Witness ==
    /\ cmd.verb = "toggle_notifications"
    /\ cmd.author = 1 /\ cmd.channel = 7 /\ CHANNEL_ID = 7
    /\ cmd.enabledBefore
    /\ ~CONTAINER_EVENTS_ENABLED
    /\ cmd.replies = <<R("disabled")>>
    /\ Len(Notifs) > 0

\* C18: after the toggle is turned off, at most one event notification is
\* sent before the toggle is next turned on.
C18_AtMostOneStale == hist.staleSent <= 1

\* what the code keeps of C18: a notification sent while the toggle is off is
\* of an event that the stream thread relayed while the toggle was on
C18_StaleWereRelayedEnabled ==
    [][\A w \in Workers :
          (Notified(w) /\ ~CONTAINER_EVENTS_ENABLED) => worker[w].ev.arrEnabled]_vars

Terminated(t) == thread[t].st \in {"raised", "returned"}

\* C19: whenever the subscription of a stream thread has terminated, by an
\* exception or by the stream ending, the termination has been logged.
C19_TerminationLogged ==
    \A t \in Workers : Terminated(t) => <<"thread", t, 0>> \in hist.logged

\* what the code keeps of C19: a subscription that ends with an exception is
\* logged, and after either end the thread relays nothing more while the
\* dispatcher still takes commands and suspended handlers go on
C19_RaisedLoggedCommandsServed ==
    \A t \in Workers :
        /\ thread[t].st = "raised" => <<"thread", t, 0>> \in hist.logged
        /\ Terminated(t) =>
             /\ ~ENABLED docker_event_thread(t, MaxReconnectEvents)
             /\ cmd.pc \in {"idle", "done"} => ENABLED SystemCommands
             /\ Suspended => ENABLED HandlerSteps

\* the bridge of on_ready invocation w is active: its worker task or its
\* stream thread exists
Active(w) == worker[w].pc # "none" \/ thread[w].st # "none"

\* C20: a worker or a stream thread exists, and a message of the bridge is on
\* the channel, only for an on_ready invocation in which the guild and the
\* channel both resolved; with channel id 0 the channel never resolves; as
\* long as no invocation resolved there is no worker, no thread, nothing on
\* the queue and nothing sent.  Commands are taken all the same, and with
\* channel id 0 none is rejected for its channel.
C20_ActivatedOnlyWhenResolved ==
    /\ \A w \in Workers : Active(w) => w \in ready.ok
    /\ \A i \in 1..Len(sent) : sent[i].w \in ready.ok
    /\ CHANNEL_ID = 0 => ready.ok = {}
    /\ ready.ok = {} =>
         /\ \A w \in Workers : ~Active(w)
         /\ event_queue = <<>>
         /\ sent = <<>>
    /\ cmd.pc \in {"idle", "done"} => ENABLED SystemCommands
    /\ (Issued /\ CHANNEL_ID = 0) => cmd.auth # "wrong_channel"

\* with channel id 0 the gateway has reported ready and nothing resolved: no
\* bridge, and the help command of the authorized caller was served in a
\* channel of their choice
C20_Witness ==
    /\ CHANNEL_ID = 0
    /\ ready.count = 1 /\ ready.pc = "idle" /\ ready.ok = {}
    /\ \A w \in Workers : ~Active(w)
    /\ cmd.verb = "help" /\ cmd.channel = 8 /\ cmd.replies = <<R("help")>>

====
